---- MODULE Spec2Model ----
(***************************************************************************)
(* Model of generate_combined_progressions.py: the combination engine that *)
(* chains pairs of compatible modulation progressions, and the main()      *)
(* driver around it (load, generate, save, statistics).                    *)
(*                                                                         *)
(* Python objects are modelled with identity.  A chord dict lives in       *)
(* `heap` (a sequence; the reference of a chord is its index), and a       *)
(* progression holds a sequence of chord references, so that aliasing and  *)
(* in-place mutation (line 60, line 64) are observable.  The JSON files    *)
(* hold plain values: a progression of a file holds its chords by value.   *)
(***************************************************************************)
EXTENDS Integers, Sequences, FiniteSets, TLC

VARIABLES
    pc,              \* position in main() / in the engine
    file,            \* content of modulationDB.json (values)
    heap,            \* the chord dicts in memory, by reference
    modulations,     \* main: modulations (the loaded list)
    original_count,  \* main: original_count
    combined,        \* generate_combined_progressions: combined
    next_id,         \* generate_combined_progressions: next_id
    i, j,            \* generate_combined_progressions: loop indices (1-based)
    log,             \* the "Combined progression p1 -> p2 (new ID: n)" lines
    saved,           \* content of modulationDB_expanded.json (values)
    growth           \* the growth factor of the statistics, as <<total, original>>

vars == <<pc, file, heap, modulations, original_count, combined, next_id,
          i, j, log, saved, growth>>

----------------------------------------------------------------------------
(* Bounds of the model and the constant of the program.                    *)

MaxCatalog == 2      \* progressions in the input catalog
MaxChords == 2       \* chords of one input progression
Octave == 12         \* the modulus of lines 47 and 60

----------------------------------------------------------------------------
(* Input domains.                                                          *)

Modes == {"ionian", "dorian"}
Roots == {7, 13}                 \* 13: a root outside [0, 12)
NewIds == {3, 10}

NoComment == <<>>
Chord(k, c) == [key_root |-> k, has_comment |-> c # NoComment, comment |-> c]
ChordVals == <<Chord(5, NoComment), Chord(10, <<"pivot">>)>>

\* The chord sequences of the operands: n chords taken in turn from ChordVals,
\* starting at either of them.
TurnChords(n, s) == [k \in 1..n |-> ChordVals[((s + k) % Len(ChordVals)) + 1]]
ChordSeqs == {TurnChords(n, s) : n \in 0..MaxChords, s \in 1..Len(ChordVals)}

TechniqueOf(from, to) == <<from, to>>
StyleOf(r) == IF r = 7 THEN {"jazz"} ELSE {"jazz", "classical"}

Progression(id, from, to, r, chords) ==
    [id |-> id, modulation_technique |-> TechniqueOf(from, to), style |-> StyleOf(r),
     from_mode |-> from, to_root |-> r, to_mode |-> to, chords |-> chords]

\* Every progression over the input domains, for the operands of combine.
Progressions ==
    {Progression(1, f, t, r, cs) :
        f \in Modes, t \in Modes, r \in Roots, cs \in ChordSeqs}

\* A catalog record as the data model describes it: n chords, the path
\* starting on the tonic and the last chord arriving on to_root.
PathChords(n, r) ==
    [k \in 1..n |->
        Chord(IF k = n THEN r ELSE (5 * (k - 1)) % Octave,
              IF k % 2 = 1 THEN <<"step">> ELSE NoComment)]

\* Catalog ids are unique, unsorted and leave gaps.
IdAt(k) == ((5 * k) % 7) + 1

\* The free fields of a catalog record: <<from_mode, to_mode, to_root, chord count>>.
RecordShapes == Modes \X Modes \X Roots \X (0..MaxChords)

CatalogRecord(k, shape) ==
    Progression(IdAt(k), shape[1], shape[2], shape[3], PathChords(shape[4], shape[3]))

\* The catalog of n records of the given shapes.
Catalog(n, shapes) == [k \in 1..n |-> CatalogRecord(k, shapes[k])]

----------------------------------------------------------------------------
(* Helpers over the heap.                                                  *)

\* The chords of a progression, by value.
ChordsOf(h, prog) == [k \in 1..Len(prog.chords) |-> h[prog.chords[k]]]

\* A progression as JSON writes it: its chords by value.
ValueOf(h, prog) == [prog EXCEPT !.chords = ChordsOf(h, prog)]

KeyRoots(h, prog) == [k \in 1..Len(prog.chords) |-> h[prog.chords[k]].key_root]

\* json.load of one record: every chord becomes a fresh dict.
LoadRecord(h, rec) ==
    [heap |-> h \o rec.chords,
     prog |-> [rec EXCEPT !.chords = [k \in 1..Len(rec.chords) |-> Len(h) + k]]]

RECURSIVE LoadAll(_, _, _)
LoadAll(h, recs, acc) ==
    IF recs = <<>> THEN [heap |-> h, progs |-> acc]
    ELSE LET r == LoadRecord(h, Head(recs))
         IN  LoadAll(r.heap, Tail(recs), Append(acc, r.prog))

----------------------------------------------------------------------------
(* are_compatible and combine_progressions.                                *)

are_compatible_same_end(prog1, prog2) == prog1.to_mode = prog2.to_mode
are_compatible(prog1, prog2) == prog1.to_mode = prog2.from_mode

\* copy.deepcopy(chord): a fresh dict with the same content.
deepcopy_alias(h, ref) == [heap |-> h, ref |-> ref]
deepcopy(h, ref) == [heap |-> Append(h, h[ref]), ref |-> Len(h) + 1]

\* chords[:-1]: all but the last element; the empty list for an empty list.
AllButLastKeepsLast(chords) == chords
AllButLast(chords) == SubSeq(chords, 1, Len(chords) - 1)

ToRootOfSecond(prog1, prog2) == prog2.to_root % Octave
ToRoot(prog1, prog2) == (prog1.to_root + prog2.to_root) % Octave

RebaseNoWrap(key_root, offset) == key_root + offset
RebaseBySelf(key_root, offset) == (key_root + key_root) % Octave
Rebase(key_root, offset) == (key_root + offset) % Octave

\* Lines 42-50: the new record, its chord list still empty.
new_progression_endpoints_swapped(prog1, prog2, new_id) ==
    [id |-> new_id,
     modulation_technique |-> <<"combo">> \o prog1.modulation_technique
                                          \o prog2.modulation_technique,
     style |-> prog1.style \cup prog2.style,
     from_mode |-> prog2.from_mode,
     to_root |-> ToRoot(prog1, prog2),
     to_mode |-> prog1.to_mode,
     chords |-> <<>>]
new_progression(prog1, prog2, new_id) ==
    [id |-> new_id,
     modulation_technique |-> <<"combo">> \o prog1.modulation_technique
                                          \o prog2.modulation_technique,
     style |-> prog1.style \cup prog2.style,
     from_mode |-> prog1.from_mode,
     to_root |-> ToRoot(prog1, prog2),
     to_mode |-> prog2.to_mode,
     chords |-> <<>>]

\* Lines 53-54: append a deep copy of every chord of refs.
RECURSIVE CopyChords(_, _, _)
CopyChords(h, refs, acc) ==
    IF refs = <<>> THEN [heap |-> h, chords |-> acc]
    ELSE LET c == deepcopy(h, Head(refs))
         IN  CopyChords(c.heap, Tail(refs), Append(acc, c.ref))

\* Lines 59-64: the copy is changed in place, through its reference.
RebaseChord(h, ref, offset) ==
    [h EXCEPT ![ref] =
        [key_root |-> Rebase(h[ref].key_root, offset),
         has_comment |-> h[ref].has_comment,
         comment |-> IF h[ref].has_comment
                     THEN <<"[from prog2]">> \o h[ref].comment
                     ELSE h[ref].comment]]

\* Lines 57-66: append a rebased deep copy of every chord of refs.
RECURSIVE CopyRebased(_, _, _, _)
CopyRebased(h, refs, offset, acc) ==
    IF refs = <<>> THEN [heap |-> h, chords |-> acc]
    ELSE LET c == deepcopy(h, Head(refs))
         IN  CopyRebased(RebaseChord(c.heap, c.ref, offset), Tail(refs), offset,
                         Append(acc, c.ref))

\* Lines 29-68.  The result: the heap after the call and the new record.
combine_progressions(h, prog1, prog2, new_id) ==
    LET first  == CopyChords(h, AllButLast(prog1.chords), <<>>)
        offset == prog1.to_root
        second == CopyRebased(first.heap, prog2.chords, offset, first.chords)
    IN  [heap |-> second.heap,
         prog |-> [new_progression(prog1, prog2, new_id) EXCEPT !.chords = second.chords]]

----------------------------------------------------------------------------
(* main() and generate_combined_progressions, one step per statement group *)
(* and one step per iteration of the pair loop.                            *)

Max(S) == CHOOSE x \in S : \A y \in S : y <= x
Ids(progs) == {progs[k].id : k \in 1..Len(progs)}

FirstNewIdByCount(progs) == Len(progs) + 1
FirstNewId(progs) == Max(Ids(progs)) + 1

Init ==
    /\ pc = "load"
    /\ \E n \in 0..MaxCatalog : \E shapes \in [1..n -> RecordShapes] :
           file = Catalog(n, shapes)
    /\ heap = <<>>
    /\ modulations = <<>>
    /\ original_count = 0
    /\ combined = <<>>
    /\ next_id = 0
    /\ i = 1
    /\ j = 1
    /\ log = <<>>
    /\ saved = <<>>
    /\ growth = <<>>

\* Lines 108-111: no record is validated after the load.
Load ==
    /\ pc = "load"
    /\ LET l == LoadAll(heap, file, <<>>)
       IN  /\ heap' = l.heap
           /\ modulations' = l.progs
           /\ original_count' = Len(l.progs)
    /\ pc' = "generate"
    /\ UNCHANGED <<file, combined, next_id, i, j, log, saved, growth>>

\* Lines 81-82: max() of an empty sequence raises ValueError.
GenerateStart ==
    /\ pc = "generate"
    /\ combined' = <<>>
    /\ IF modulations = <<>>
       THEN /\ pc' = "ValueError"
            /\ UNCHANGED next_id
       ELSE /\ pc' = "pairs"
            /\ next_id' = FirstNewId(modulations)
    /\ i' = 1
    /\ j' = 1
    /\ UNCHANGED <<file, heap, modulations, original_count, log, saved, growth>>

\* The next (i, j) of the nested loops of lines 85-86.
Advance ==
    IF j < Len(modulations)
    THEN i' = i /\ j' = j + 1
    ELSE i' = i + 1 /\ j' = 1

\* Lines 88-93: a compatible pair.
PairCombine ==
    /\ pc = "pairs"
    /\ i <= Len(modulations)
    /\ are_compatible(modulations[i], modulations[j])
    /\ LET r == combine_progressions(heap, modulations[i], modulations[j], next_id)
       IN  /\ heap' = r.heap
           /\ combined' = Append(combined, r.prog)
           /\ log' = Append(log, [prog1 |-> modulations[i].id,
                                  prog2 |-> modulations[j].id,
                                  new_id |-> r.prog.id])
    /\ next_id' = next_id + 1
    /\ Advance
    /\ UNCHANGED <<pc, file, modulations, original_count, saved, growth>>

\* Line 88 false: the pair is passed over.
PairSkip ==
    /\ pc = "pairs"
    /\ i <= Len(modulations)
    /\ ~are_compatible(modulations[i], modulations[j])
    /\ Advance
    /\ UNCHANGED <<pc, file, heap, modulations, original_count, combined, next_id,
                   log, saved, growth>>

\* Line 100, back in main at line 116.
GenerateReturn ==
    /\ pc = "pairs"
    /\ i > Len(modulations)
    /\ pc' = "save"
    /\ UNCHANGED <<file, heap, modulations, original_count, combined, next_id,
                   i, j, log, saved, growth>>

\* Lines 120-128: the originals first, then the combined records.
Save ==
    /\ pc = "save"
    /\ LET expanded_modulations == modulations \o combined
       IN  saved' = [k \in 1..Len(expanded_modulations) |->
                        ValueOf(heap, expanded_modulations[k])]
    /\ pc' = "statistics"
    /\ UNCHANGED <<file, heap, modulations, original_count, combined, next_id,
                   i, j, log, growth>>

\* Lines 131-136: total_count / original_count.
Statistics ==
    /\ pc = "statistics"
    /\ IF original_count = 0
       THEN /\ pc' = "ZeroDivisionError"
            /\ UNCHANGED growth
       ELSE /\ pc' = "done"
            /\ growth' = <<Len(saved), original_count>>
    /\ UNCHANGED <<file, heap, modulations, original_count, combined, next_id,
                   i, j, log, saved>>

Next ==
    \/ Load
    \/ GenerateStart
    \/ PairCombine
    \/ PairSkip
    \/ GenerateReturn
    \/ Save
    \/ Statistics

Spec == Init /\ [][Next]_vars

----------------------------------------------------------------------------
(* combine_progressions on its own: every pair of operands over the input  *)
(* domains, compatible or not, and then the two ways of chaining a third   *)
(* progression, as a second run over the expanded catalog would.           *)
(*   modulations = <<a, b>>, then <<a, b, c>>                              *)
(*   combined    = <<ab>>,   then <<ab, bc, (ab)c, a(bc)>>                 *)

InitCombine ==
    /\ pc = "operands"
    /\ \E a \in Progressions, b \in Progressions :
           file = <<a, [b EXCEPT !.id = 2]>>
    /\ LET l == LoadAll(<<>>, file, <<>>)
       IN  /\ heap = l.heap
           /\ modulations = l.progs
    /\ original_count = 2
    /\ combined = <<>>
    /\ next_id \in NewIds
    /\ i = 1
    /\ j = 2
    /\ log = <<>>
    /\ saved = <<>>
    /\ growth = <<>>

CombinePair ==
    /\ pc = "operands"
    /\ LET r == combine_progressions(heap, modulations[1], modulations[2], next_id)
       IN  /\ heap' = r.heap
           /\ combined' = <<r.prog>>
    /\ next_id' = next_id + 1
    /\ pc' = "combined"
    /\ UNCHANGED <<file, modulations, original_count, i, j, log, saved, growth>>

CombineChain ==
    /\ pc = "combined"
    /\ are_compatible(modulations[1], modulations[2])
    /\ \E c \in Progressions :
           LET l    == LoadRecord(heap, [c EXCEPT !.id = 3])
               a    == modulations[1]
               b    == modulations[2]
               ab   == combined[1]
               bc   == combine_progressions(l.heap, b, l.prog, ab.id)
               ab_c == combine_progressions(bc.heap, ab, l.prog, next_id)
               a_bc == combine_progressions(ab_c.heap, a, bc.prog, next_id)
           IN  /\ are_compatible(b, l.prog)
               /\ heap' = a_bc.heap
               /\ modulations' = Append(modulations, l.prog)
               /\ combined' = <<ab, bc.prog, ab_c.prog, a_bc.prog>>
    /\ pc' = "chained"
    /\ UNCHANGED <<file, original_count, next_id, i, j, log, saved, growth>>

NextCombine ==
    \/ CombinePair
    \/ CombineChain

SpecCombine == InitCombine /\ [][NextCombine]_vars

----------------------------------------------------------------------------
(* Properties.                                                             *)

InputIds == {file[k].id : k \in 1..Len(file)}
RecordOfId(id) == CHOOSE rec \in {file[k] : k \in 1..Len(file)} : rec.id = id
Returned == pc \in {"save", "statistics", "done"}
InOctave(n) == n \in 0..(Octave - 1)

\* C1: for operands a, b with non-empty chords, the chords of combine(a, b, _)
\* are the chords of a without its last one, unchanged and in order, followed
\* by the chords of b in order, each with key_root = (its key_root +
\* a.to_root) mod 12; the length is len(a.chords) + len(b.chords) - 1.
ChordSplice ==
    (pc = "combined" /\ file[1].chords # <<>> /\ file[2].chords # <<>>) =>
        LET a   == file[1]
            b   == file[2]
            n1  == Len(a.chords)
            n2  == Len(b.chords)
            got == ChordsOf(heap, combined[1])
        IN  /\ Len(got) = n1 + n2 - 1
            /\ \A k \in 1..(n1 - 1) : got[k] = a.chords[k]
            /\ \A k \in 1..n2 :
                   got[n1 - 1 + k].key_root = (b.chords[k].key_root + a.to_root) % 12

ChordSpliceWitness ==
    /\ pc = "combined"
    /\ Len(file[1].chords) = 2
    /\ Len(file[2].chords) = 2
    /\ file[1].to_root = 7
    /\ KeyRoots(heap, combined[1]) = <<10, 0, 5>>

\* C2: every combined progression of a run has to_root = (a.to_root + b.to_root)
\* mod 12 for the compatible pair (a, b) it was made of; a progression combined
\* with itself has to_root = (2 * to_root) mod 12.
RootAdditivity ==
    \A k \in 1..Len(log) :
        LET a == RecordOfId(log[k].prog1)
            b == RecordOfId(log[k].prog2)
        IN  /\ combined[k].to_root = (a.to_root + b.to_root) % 12
            /\ log[k].prog1 = log[k].prog2 => combined[k].to_root = (2 * a.to_root) % 12

RootAdditivityWitness ==
    /\ pc = "done"
    /\ \E k \in 1..Len(log) :
           /\ log[k].prog1 = log[k].prog2
           /\ RecordOfId(log[k].prog1).to_root = 7
           /\ combined[k].to_root = 2
    /\ \E k \in 1..Len(log) :
           /\ log[k].prog1 # log[k].prog2
           /\ RecordOfId(log[k].prog1).to_root # RecordOfId(log[k].prog2).to_root

\* C3: during and after the pair loop of a run on a non-empty catalog,
\* next_id = max(input ids) + 1 + number of records emitted so far, the new
\* ids are pairwise distinct and each is greater than every input id.
NewIdsFresh ==
    (pc \in {"pairs", "save", "statistics", "done"}) =>
        /\ next_id = Max(InputIds) + 1 + Len(combined)
        /\ \A k \in 1..Len(combined) : \A id \in InputIds : combined[k].id > id
        /\ \A k, l \in 1..Len(combined) : k # l => combined[k].id # combined[l].id

NewIdsFreshWitness ==
    /\ pc = "done"
    /\ Len(file) = 2
    /\ file[1].id > file[2].id
    /\ Len(combined) = 4

\* C4: generateAll returns one combined progression for every ordered pair
\* (p1, p2) of the catalog with p1.to_mode = p2.from_mode, self-pairs
\* included, none for another pair, in the order of the nested loops; the
\* k-th pair found (k from 0) gets id max(input ids) + 1 + k.
CompatiblePairs ==
    {p \in (1..Len(file)) \X (1..Len(file)) : file[p[1]].to_mode = file[p[2]].from_mode}
Before(p, q) == p[1] < q[1] \/ (p[1] = q[1] /\ p[2] < q[2])
RankOf(p) == Cardinality({q \in CompatiblePairs : Before(q, p)})

AllPairsInOrder ==
    Returned =>
        /\ Len(combined) = Cardinality(CompatiblePairs)
        /\ Len(log) = Len(combined)
        /\ \A p \in CompatiblePairs :
               LET k == RankOf(p) + 1
               IN  /\ log[k] = [prog1 |-> file[p[1]].id, prog2 |-> file[p[2]].id,
                                new_id |-> Max(InputIds) + RankOf(p) + 1]
                   /\ combined[k].id = Max(InputIds) + 1 + RankOf(p)
                   /\ combined[k].from_mode = file[p[1]].from_mode
                   /\ combined[k].to_mode = file[p[2]].to_mode
                   /\ Len(combined[k].chords) =
                          Len(AllButLast(file[p[1]].chords)) + Len(file[p[2]].chords)

AllPairsInOrderWitness ==
    /\ pc = "done"
    /\ Len(file) = 2
    /\ CompatiblePairs = {<<1, 1>>, <<1, 2>>}
    /\ Len(combined) = 2

\* C5: the loaded catalog is never changed (every record, its style and every
\* chord still has the content of the input file), and every chord of a
\* combined progression is a dict of its own: it is no chord of the catalog
\* and no other chord of a combined progression.
CatalogRefs == UNION {{modulations[k].chords[n] : n \in 1..Len(modulations[k].chords)} :
                        k \in 1..Len(modulations)}
InputsUntouched ==
    (pc # "load") =>
        /\ Len(modulations) = Len(file)
        /\ \A k \in 1..Len(file) : ValueOf(heap, modulations[k]) = file[k]
        /\ \A k \in 1..Len(combined) : \A n \in 1..Len(combined[k].chords) :
               /\ combined[k].chords[n] \notin CatalogRefs
               /\ \A l \in 1..Len(combined) : \A m \in 1..Len(combined[l].chords) :
                      (k # l \/ n # m) => combined[k].chords[n] # combined[l].chords[m]

InputsUntouchedWitness ==
    /\ pc = "done"
    /\ \E k \in 1..Len(log) :
           /\ log[k].prog1 = log[k].prog2
           /\ Len(combined[k].chords) = 3
           /\ ChordsOf(heap, combined[k])[2] # RecordOfId(log[k].prog1).chords[1]

\* C6: on an empty catalog the run produces no combined progression and
\* completes without a fault.
EmptyCatalogCompletes ==
    (file = <<>>) => pc \notin {"ValueError", "ZeroDivisionError"}

\* C7: a catalog with a progression without chords is rejected: the run is
\* aborted and nothing is combined from an operand without chords.
HasEmptyChords == \E k \in 1..Len(file) : file[k].chords = <<>>
EmptyChordsRejected ==
    HasEmptyChords =>
        /\ ~Returned
        /\ \A k \in 1..Len(log) :
               /\ RecordOfId(log[k].prog1).chords # <<>>
               /\ RecordOfId(log[k].prog2).chords # <<>>

\* C8: for every pair (a, b), compatible or not, combine(a, b, newId) has
\* from_mode = a.from_mode, to_mode = b.to_mode and id = newId.
EndpointChaining ==
    (pc = "combined") =>
        /\ combined[1].from_mode = file[1].from_mode
        /\ combined[1].to_mode = file[2].to_mode
        /\ combined[1].id = next_id - 1
        /\ combined[1].id \in NewIds

EndpointChainingWitness ==
    /\ pc = "combined"
    /\ ~are_compatible(modulations[1], modulations[2])
    /\ file[1].from_mode # file[2].from_mode
    /\ file[1].to_mode # file[2].to_mode
    /\ combined[1].id = 10

\* C9: when every to_root and every key_root of the input catalog is in
\* [0, 12), so is every to_root and every key_root of the written batch,
\* the originals and the combined records, the chords copied from the left
\* operand included.
InputInOctave ==
    \A k \in 1..Len(file) :
        /\ InOctave(file[k].to_root)
        /\ \A n \in 1..Len(file[k].chords) : InOctave(file[k].chords[n].key_root)
PitchClassRange ==
    InputInOctave =>
        /\ \A k \in 1..Len(saved) :
               /\ InOctave(saved[k].to_root)
               /\ \A n \in 1..Len(saved[k].chords) : InOctave(saved[k].chords[n].key_root)
        /\ \A k \in 1..Len(combined) :
               /\ InOctave(combined[k].to_root)
               /\ \A n \in 1..Len(combined[k].chords) :
                      InOctave(heap[combined[k].chords[n]].key_root)

PitchClassRangeWitness ==
    /\ pc = "done"
    /\ InputInOctave
    /\ Len(saved) > Len(file)
    /\ \E k \in (Len(file) + 1)..Len(saved) :
           /\ saved[k].to_root = 2
           /\ Len(saved[k].chords) = 3
           /\ saved[k].chords[1].key_root = 0
           /\ saved[k].chords[3].key_root = 2

\* C10: for a, b, c with non-empty chords, a.to_mode = b.from_mode and
\* b.to_mode = c.from_mode, combine(combine(a, b, x), c, y) and
\* combine(a, combine(b, c, x), y) have the same from_mode, to_mode, to_root,
\* chord count and sequence of key_root values.
Associative ==
    (/\ pc = "chained"
     /\ \A k \in 1..3 : modulations[k].chords # <<>>
     /\ are_compatible(modulations[1], modulations[2])
     /\ are_compatible(modulations[2], modulations[3])) =>
        LET ab_c == combined[3]
            a_bc == combined[4]
        IN  /\ ab_c.from_mode = a_bc.from_mode
            /\ ab_c.to_mode = a_bc.to_mode
            /\ ab_c.to_root = a_bc.to_root
            /\ Len(ab_c.chords) = Len(a_bc.chords)
            /\ KeyRoots(heap, ab_c) = KeyRoots(heap, a_bc)

AssociativeWitness ==
    /\ pc = "chained"
    /\ \A k \in 1..3 : Len(modulations[k].chords) = 2
    /\ modulations[1].to_root = 7
    /\ modulations[2].to_root = 7
    /\ modulations[3].to_root = 13
    /\ combined[3].to_root = 3
    /\ ChordsOf(heap, combined[3]) # ChordsOf(heap, combined[4])
    /\ combined[3].modulation_technique # combined[4].modulation_technique

====
